---- MODULE Spec2Model ----
(***************************************************************************)
(* Model of src/main.cpp: increment_all and print_all, two traversals of   *)
(* the half-open pointer range [start, stop) over an int array, and main,  *)
(* which calls them in turn on numbers = {10, 20, 30}.                     *)
(*                                                                         *)
(* A pointer into the array is modelled by its offset from the array's     *)
(* first element: offset p addresses numbers[p + 1], and offset            *)
(* Len(numbers) is the one-past-the-end pointer.  A state is taken at each *)
(* evaluation of a loop test (lines 34 and 42) and between the calls of    *)
(* main.  int is the 32-bit two's complement type, cout's text is a        *)
(* sequence of characters.                                                 *)
(***************************************************************************)
EXTENDS Integers, Sequences, FiniteSets, TLC

VARIABLES
    numbers,    \* the array (main.cpp:49), a sequence of int
    start,      \* the parameter start of the running call, an offset
    stop,       \* the parameter stop of the running call, an offset
    current,    \* the local current of the running call, an offset
    pc,         \* "main" | "inc34" | "print42" | "exit" | "trap"
    calls,      \* the functions main has called so far, in order
    out,        \* the characters written to cout so far
    exitCode,   \* the value main returned, -1 while it has not returned
    scenario,   \* "main": the array and calls of main; "harness": any array, range and calls
    orig,       \* history: the array when the program started
    entry,      \* history: the array when the last call was entered
    outEntry,   \* history: Len(out) when the last call was entered
    derefs,     \* history: the offsets the last call dereferenced, in order
    advances,   \* history: how many times the last call executed ++current
    overflow    \* history: a signed overflow was executed (undefined behaviour)

vars == <<numbers, start, stop, current, pc, calls, out, exitCode,
          scenario, orig, entry, outEntry, derefs, advances, overflow>>

----------------------------------------------------------------------------
(* The type int. *)

INT_MAX == 2147483647
INT_MIN == -2147483647 - 1

----------------------------------------------------------------------------
(* Bounds of the model. *)

MaxLen == 3         \* the longest array of the harness
MaxCalls == 2       \* the most calls the harness makes on one array

\* The element values the harness draws from: a negative value next to zero,
\* a value whose successor has one digit more, and the two largest ints.
Values == {-1, 9, INT_MAX - 1, INT_MAX}

RECURSIVE SeqsOfLen(_, _)
SeqsOfLen(S, n) ==
    IF n = 0 THEN {<<>>}
    ELSE {Append(s, v) : s \in SeqsOfLen(S, n - 1), v \in S}

Arrays == UNION {SeqsOfLen(Values, n) : n \in 0..MaxLen}

----------------------------------------------------------------------------
(* operator<<(ostream&, int) and endl. *)

DigitChar(d) == <<"0", "1", "2", "3", "4", "5", "6", "7", "8", "9">>[d + 1]

\* The decimal digits of -v for v <= 0 (the magnitude of INT_MIN is no int).
RECURSIVE Magnitude(_)
Magnitude(v) ==
    LET d == (10 - (v % 10)) % 10
    IN  IF v > -10 THEN <<DigitChar(d)>>
        ELSE Append(Magnitude((v + d) \div 10), DigitChar(d))

\* cout << v: decimal, a minus sign for a negative value, no padding.
ToDecimal(v) == IF v < 0 THEN <<"-">> \o Magnitude(v) ELSE Magnitude(-v)

\* cout << endl
Endl == <<"\n">>

----------------------------------------------------------------------------
(* The loop test of both traversals: the pointers are compared. *)

LoopTest(cur, stp) == cur # stp

----------------------------------------------------------------------------
(* Initial states. *)

InitCommon ==
    /\ current = 0
    /\ pc = "main"
    /\ calls = <<>>
    /\ out = <<>>
    /\ exitCode = -1
    /\ orig = numbers
    /\ entry = numbers
    /\ outEntry = 0
    /\ derefs = <<>>
    /\ advances = 0
    /\ overflow = FALSE

\* main: int numbers[] = {10, 20, 30}; both calls get (numbers, numbers+3).
MainInit ==
    /\ scenario = "main"
    /\ numbers = <<10, 20, 30>>
    /\ start = 0
    /\ stop = 3
    /\ InitCommon

\* Any array over Values and any range of it with stop reachable from start.
HarnessInit ==
    /\ scenario = "harness"
    /\ numbers \in Arrays
    /\ start \in 0..Len(numbers)
    /\ stop \in start..Len(numbers)
    /\ InitCommon

Init == MainInit \/ HarnessInit

----------------------------------------------------------------------------
(* main's calls. *)

\* Faulty variant: main prints before it increments.
CallsNextSwapped(f) ==
    IF scenario = "main"
    THEN \/ Len(calls) = 0 /\ f = "print_all"
         \/ Len(calls) = 1 /\ f = "increment_all"
    ELSE Len(calls) < MaxCalls

\* Whether main calls f next: increment_all, then print_all (lines 50, 51);
\* the harness calls any of the two, at most MaxCalls times.
CallsNext(f) ==
    IF scenario = "main"
    THEN \/ Len(calls) = 0 /\ f = "increment_all"
         \/ Len(calls) = 1 /\ f = "print_all"
    ELSE Len(calls) < MaxCalls

\* Whether main has made its calls and returns.
CallsDone ==
    IF scenario = "main" THEN Len(calls) = 2 ELSE Len(calls) >= 1

\* Binding the parameters and the local current of a call of f.
EnterCall(f, cur) ==
    /\ calls' = Append(calls, f)
    /\ current' = cur
    /\ entry' = numbers
    /\ outEntry' = Len(out)
    /\ derefs' = <<>>
    /\ advances' = 0
    /\ UNCHANGED <<numbers, start, stop, out, exitCode, scenario, orig, overflow>>

\* Faulty variant: current starts at the array's first element, not at start.
CallIncrementAllFromBase ==
    /\ pc = "main"
    /\ CallsNext("increment_all")
    /\ pc' = "inc34"
    /\ EnterCall("increment_all", 0)

\* increment_all(numbers + start, numbers + stop); int *current = start;
CallIncrementAll ==
    /\ pc = "main"
    /\ CallsNext("increment_all")
    /\ pc' = "inc34"
    /\ EnterCall("increment_all", start)

\* Faulty variant: current starts at the array's first element, not at start.
CallPrintAllFromBase ==
    /\ pc = "main"
    /\ CallsNext("print_all")
    /\ pc' = "print42"
    /\ EnterCall("print_all", 0)

\* print_all(numbers + start, numbers + stop); const int *current = start;
CallPrintAll ==
    /\ pc = "main"
    /\ CallsNext("print_all")
    /\ pc' = "print42"
    /\ EnterCall("print_all", start)

\* return 0;
MainReturn ==
    /\ pc = "main"
    /\ CallsDone
    /\ pc' = "exit"
    /\ exitCode' = 0
    /\ UNCHANGED <<numbers, start, stop, current, calls, out, scenario,
                   orig, entry, outEntry, derefs, advances, overflow>>

----------------------------------------------------------------------------
(* increment_all *)

\* One iteration: ++(*current); ++current;
\* ++ on INT_MAX is a signed overflow, undefined behaviour: the build either
\* wraps to INT_MIN or traps (the process is aborted inside the call).
IncrementBody ==
    /\ pc = "inc34"
    /\ LoopTest(current, stop)
    /\ LET v == numbers[current + 1] IN
        \/ /\ v < INT_MAX
           /\ numbers' = [numbers EXCEPT ![current + 1] = v + 1]
           /\ current' = current + 1
           /\ advances' = advances + 1
           /\ derefs' = Append(derefs, current)
           /\ UNCHANGED <<pc, overflow>>
        \/ /\ v = INT_MAX
           /\ numbers' = [numbers EXCEPT ![current + 1] = INT_MIN]
           /\ current' = current + 1
           /\ advances' = advances + 1
           /\ derefs' = Append(derefs, current)
           /\ overflow' = TRUE
           /\ UNCHANGED pc
        \/ /\ v = INT_MAX
           /\ pc' = "trap"
           /\ derefs' = Append(derefs, current)
           /\ overflow' = TRUE
           /\ UNCHANGED <<numbers, current, advances>>
    /\ UNCHANGED <<start, stop, calls, out, exitCode, scenario, orig,
                   entry, outEntry>>

\* The loop test fails: the function returns to main.
IncrementReturn ==
    /\ pc = "inc34"
    /\ ~LoopTest(current, stop)
    /\ pc' = "main"
    /\ UNCHANGED <<numbers, start, stop, current, calls, out, exitCode,
                   scenario, orig, entry, outEntry, derefs, advances, overflow>>

----------------------------------------------------------------------------
(* print_all *)

\* Faulty variant: cout << *current; without endl.
PrintBodyNoEndl ==
    /\ pc = "print42"
    /\ LoopTest(current, stop)
    /\ out' = out \o ToDecimal(numbers[current + 1])
    /\ current' = current + 1
    /\ advances' = advances + 1
    /\ derefs' = Append(derefs, current)
    /\ UNCHANGED <<numbers, start, stop, pc, calls, exitCode, scenario,
                   orig, entry, outEntry, overflow>>

\* One iteration: cout << *current << endl; ++current;
PrintBody ==
    /\ pc = "print42"
    /\ LoopTest(current, stop)
    /\ out' = out \o ToDecimal(numbers[current + 1]) \o Endl
    /\ current' = current + 1
    /\ advances' = advances + 1
    /\ derefs' = Append(derefs, current)
    /\ UNCHANGED <<numbers, start, stop, pc, calls, exitCode, scenario,
                   orig, entry, outEntry, overflow>>

\* The loop test fails: the function returns to main.
PrintReturn ==
    /\ pc = "print42"
    /\ ~LoopTest(current, stop)
    /\ pc' = "main"
    /\ UNCHANGED <<numbers, start, stop, current, calls, out, exitCode,
                   scenario, orig, entry, outEntry, derefs, advances, overflow>>

----------------------------------------------------------------------------

Next ==
    \/ CallIncrementAll
    \/ IncrementBody
    \/ IncrementReturn
    \/ CallPrintAll
    \/ PrintBody
    \/ PrintReturn
    \/ MainReturn

Spec == Init /\ [][Next]_vars

\* The program is one sequential thread: a step that can be taken is taken.
FairSpec == Spec /\ WF_vars(Next)

----------------------------------------------------------------------------
(* Vocabulary of the properties. *)

\* The function called last, "none" before the first call.
fn == IF calls = <<>> THEN "none" ELSE calls[Len(calls)]

\* The last call was a call of f and has returned to main.
Returned(f) == fn = f /\ pc \in {"main", "exit"}

\* Offset p lies in the range [start, stop).
InRange(p) == start <= p /\ p < stop

\* b is a plus exactly k as integers (a + k may be no int).
Plus(a, k, b) == a <= INT_MAX - k /\ b = a + k

\* The offsets lo, lo + 1, ..., hi - 1 in ascending order.
Ascending(lo, hi) == [k \in 1..(hi - lo) |-> lo + k - 1]

\* The lines of a text: the pieces ended by a newline, without the newline.
RECURSIVE LinesFrom(_, _, _)
LinesFrom(text, i, line) ==
    IF i > Len(text) THEN <<>>
    ELSE IF text[i] = "\n" THEN <<line>> \o LinesFrom(text, i + 1, <<>>)
    ELSE LinesFrom(text, i + 1, Append(line, text[i]))

Lines(text) == LinesFrom(text, 1, <<>>)

\* The text ends with a newline (or is empty): no line is left unfinished.
AllLinesEnded(text) == text = <<>> \/ text[Len(text)] = "\n"

Digits == {"0", "1", "2", "3", "4", "5", "6", "7", "8", "9"}

DigitValue(c) == CHOOSE d \in 0..9 : DigitChar(d) = c

\* A line is a decimal numeral: an optional minus sign, then digits, the
\* first of them 0 only when it is the only one.
IsNumeral(line) ==
    LET body == IF line # <<>> /\ line[1] = "-" THEN Tail(line) ELSE line
    IN  /\ body # <<>>
        /\ \A i \in 1..Len(body) : body[i] \in Digits
        /\ Len(body) > 1 => body[1] # "0"

\* The negated value of a digit string, read left to right.
RECURSIVE NegValue(_, _)
NegValue(body, acc) ==
    IF body = <<>> THEN acc
    ELSE NegValue(Tail(body), acc * 10 - DigitValue(body[1]))

\* The integer a numeral denotes.
NumeralValue(line) ==
    IF line[1] = "-" THEN NegValue(Tail(line), 0) ELSE -NegValue(line, 0)

\* What the last call wrote to cout.
Emitted == SubSeq(out, outEntry + 1, Len(out))

----------------------------------------------------------------------------
(* C1: after increment_all over the full range [0, n) of a sequence of     *)
(* length n, the sequence still has length n and every element equals its  *)
(* original value plus exactly 1.                                          *)
C1_FullRangePlusOne ==
    (Returned("increment_all") /\ start = 0 /\ stop = Len(entry)) =>
        /\ Len(numbers) = Len(entry)
        /\ \A i \in 1..Len(entry) : Plus(entry[i], 1, numbers[i])

(* C2: print_all over the full range of a sequence of length n writes      *)
(* exactly n lines, the k-th the decimal numeral of the element at         *)
(* position k, and leaves the sequence as it was when the call began.      *)
C2_PrintAllLines ==
    (Returned("print_all") /\ start = 0 /\ stop = Len(numbers)) =>
        /\ AllLinesEnded(Emitted)
        /\ Len(Lines(Emitted)) = Len(numbers)
        /\ \A k \in 1..Len(numbers) :
              /\ IsNumeral(Lines(Emitted)[k])
              /\ NumeralValue(Lines(Emitted)[k]) = numbers[k]
        /\ numbers = entry

C2_Witness ==
    /\ Returned("print_all")
    /\ start = 0
    /\ stop = Len(numbers)
    /\ Len(numbers) = 3
    /\ numbers[1] < 0
    /\ numbers[2] > 9
    /\ Emitted # <<>>

(* C3: main, started on [10, 20, 30], always reaches the final state with  *)
(* the sequence [11, 21, 31], the output 11, 21, 31 (one per line) and     *)
(* exit status 0; nothing is written before increment_all has returned,    *)
(* and no line of the output is ever 10, 20 or 30.                         *)
MainFinal ==
    /\ pc = "exit"
    /\ exitCode = 0
    /\ numbers = <<11, 21, 31>>
    /\ out = <<"1", "1", "\n", "2", "1", "\n", "3", "1", "\n">>

MainOutputLate ==
    /\ (calls = <<>> \/ pc = "inc34") => out = <<>>
    /\ \A k \in 1..Len(Lines(out)) :
          Lines(out)[k] \notin {<<"1", "0">>, <<"2", "0">>, <<"3", "0">>}
    /\ pc # "trap"
    /\ pc = "exit" => MainFinal

C3_MainRun ==
    /\ [](scenario = "main" => MainOutputLate)
    /\ (scenario = "main") ~> MainFinal

C3_Witness == scenario = "main" /\ MainFinal

(* C4: running increment_all twice in succession over the same range       *)
(* [start, stop) leaves the sequence a single pass adding 2 to every       *)
(* element of the range would leave.                                       *)
C4_TwiceIsPlusTwo ==
    (calls = <<"increment_all", "increment_all">> /\ Returned("increment_all")) =>
        /\ Len(numbers) = Len(orig)
        /\ \A i \in 1..Len(orig) :
              IF InRange(i - 1) THEN Plus(orig[i], 2, numbers[i])
              ELSE numbers[i] = orig[i]

(* C5: on an empty range (start = stop) at any position, increment_all and *)
(* print_all dereference no element and return at once: increment_all      *)
(* changes no element and print_all writes nothing.                        *)
C5_EmptyRange ==
    (start = stop /\ calls # <<>>) =>
        /\ derefs = <<>>
        /\ advances = 0
        /\ current = stop
        /\ numbers = entry
        /\ Emitted = <<>>
        /\ pc # "trap"

C5_Witness ==
    /\ start = stop
    /\ 0 < start
    /\ start < Len(numbers)
    /\ calls = <<"increment_all", "print_all">>
    /\ pc = "main"

(* C6: with stop reachable from start, a call of increment_all or          *)
(* print_all ends only with the cursor at stop, after exactly stop - start *)
(* advancements; while the cursor differs from stop the call goes on,      *)
(* whatever the elements are.                                              *)
C6_EndsAtStop ==
    /\ (calls # <<>> /\ pc \in {"main", "exit", "trap"}) =>
          /\ current = stop
          /\ advances = stop - start
    /\ (pc \in {"inc34", "print42"} /\ current # stop) =>
          /\ ENABLED (IncrementBody \/ PrintBody)
          /\ ~ENABLED (IncrementReturn \/ PrintReturn)

(* C7: for every sequence of ints, the maximum int included, and every     *)
(* range with stop reachable from start, increment_all completes with      *)
(* every element of the range equal to its original value plus 1, and no   *)
(* error or overflow is reached.                                           *)
C7_TotalWithoutOverflow ==
    /\ ~overflow
    /\ pc # "trap"
    /\ Returned("increment_all") =>
          \A p \in 0..(Len(entry) - 1) :
              InRange(p) => Plus(entry[p + 1], 1, numbers[p + 1])

(* C9: at every loop test of increment_all, start <= current <= stop, the  *)
(* elements of [start, current) hold their original value plus 1 and those *)
(* of [current, stop) their original value; the elements were visited in   *)
(* ascending order, each once, and stop was not dereferenced.              *)
C9_LoopInvariant ==
    (fn = "increment_all") =>
        /\ start <= current
        /\ current <= stop
        /\ \A p \in start..(current - 1) : Plus(entry[p + 1], 1, numbers[p + 1])
        /\ \A p \in current..(stop - 1) : numbers[p + 1] = entry[p + 1]
        /\ derefs = Ascending(start, current)
        /\ \A k \in 1..Len(derefs) : derefs[k] # stop

(* C10: during and after increment_all over [start, stop), every element   *)
(* before start or at or after stop holds the value it had when the call   *)
(* began, and the sequence has the length it had.                          *)
C10_Frame ==
    (fn = "increment_all") =>
        /\ Len(numbers) = Len(entry)
        /\ \A p \in 0..(Len(entry) - 1) :
              ~InRange(p) => numbers[p + 1] = entry[p + 1]

C10_Witness ==
    /\ Returned("increment_all")
    /\ 0 < start
    /\ start < stop
    /\ stop < Len(numbers)
    /\ numbers # entry

====
